---------------------------- MODULE Spec2Model ----------------------------
(***************************************************************************)
(* ODIphone: the phonetic encoder of Odia words (src/odiphone.go) and its  *)
(* two sibling variants (src/odphone.go, src/unnamed/part_000).            *)
(*                                                                         *)
(* A Go string is modelled as the sequence of its Unicode code points.     *)
(* UTF-8 is self-synchronising, so the byte-wise strings.ReplaceAll and    *)
(* the rune-wise regexp package agree with this view on valid UTF-8.       *)
(***************************************************************************)
EXTENDS Integers, Sequences, FiniteSets, TLC

VARIABLES variant, od, calls

vars == <<variant, od, calls>>

----------------------------------------------------------------------------
(* Characters and strings *)

\* Code points of the ASCII characters the sources write in their literals.
Chr ==
       "0" :> 48 @@ "1" :> 49 @@ "2" :> 50 @@ "3" :> 51 @@ "4" :> 52 @@ "5" :> 53
    @@ "6" :> 54 @@ "7" :> 55 @@ "8" :> 56 @@ "9" :> 57 @@ "A" :> 65 @@ "B" :> 66
    @@ "C" :> 67 @@ "D" :> 68 @@ "E" :> 69 @@ "F" :> 70 @@ "G" :> 71 @@ "H" :> 72
    @@ "I" :> 73 @@ "J" :> 74 @@ "K" :> 75 @@ "L" :> 76 @@ "M" :> 77 @@ "N" :> 78
    @@ "O" :> 79 @@ "P" :> 80 @@ "Q" :> 81 @@ "R" :> 82 @@ "S" :> 83 @@ "T" :> 84
    @@ "U" :> 85 @@ "V" :> 86 @@ "W" :> 87 @@ "X" :> 88 @@ "Y" :> 89 @@ "Z" :> 90
    @@ "{" :> 123 @@ "}" :> 125 @@ "," :> 44 @@ "a" :> 97 @@ "(" :> 40 @@ ")" :> 41
    @@ "*" :> 42 @@ "+" :> 43 @@ "." :> 46 @@ "?" :> 63 @@ "[" :> 91 @@ "]" :> 93
    @@ "^" :> 94 @@ "|" :> 124 @@ "$" :> 36 @@ "\\" :> 92

\* The Go string literal written as a tuple of its characters.
Rom(lit) == [i \in DOMAIN lit |-> Chr[lit[i]]]

----------------------------------------------------------------------------
(* The tables: Go maps from a glyph (a string) to its Roman code *)

\* var vowels of package odiphone
vowelsODIphone ==
       <<\h0B05>> :> Rom(<<"A">>)
    @@ <<\h0B06>> :> Rom(<<"A">>)
    @@ <<\h0B07>> :> Rom(<<"I">>)
    @@ <<\h0B08>> :> Rom(<<"I">>)
    @@ <<\h0B09>> :> Rom(<<"U">>)
    @@ <<\h0B0A>> :> Rom(<<"U">>)
    @@ <<\h0B0B>> :> Rom(<<"R">>)
    @@ <<\h0B60>> :> Rom(<<"R">>)
    @@ <<\h0B0F>> :> Rom(<<"E">>)
    @@ <<\h0B10>> :> Rom(<<"A", "I">>)
    @@ <<\h0B13>> :> Rom(<<"O">>)
    @@ <<\h0B14>> :> Rom(<<"O", "U">>)

\* var consonants of package odiphone
consonantsODIphone ==
       <<\h0B15>> :> Rom(<<"K">>)
    @@ <<\h0B16>> :> Rom(<<"K", "H">>)
    @@ <<\h0B17>> :> Rom(<<"G">>)
    @@ <<\h0B18>> :> Rom(<<"G", "H">>)
    @@ <<\h0B19>> :> Rom(<<"W", "N">>)
    @@ <<\h0B1A>> :> Rom(<<"C", "H">>)
    @@ <<\h0B1B>> :> Rom(<<"C", "H", "H">>)
    @@ <<\h0B1C>> :> Rom(<<"J">>)
    @@ <<\h0B1D>> :> Rom(<<"J", "H">>)
    @@ <<\h0B1E>> :> Rom(<<"N", "Y">>)
    @@ <<\h0B1F>> :> Rom(<<"T">>)
    @@ <<\h0B20>> :> Rom(<<"T", "H">>)
    @@ <<\h0B21>> :> Rom(<<"D">>)
    @@ <<\h0B22>> :> Rom(<<"D", "H">>)
    @@ <<\h0B23>> :> Rom(<<"N">>)
    @@ <<\h0B24>> :> Rom(<<"T">>)
    @@ <<\h0B25>> :> Rom(<<"T", "H">>)
    @@ <<\h0B26>> :> Rom(<<"D">>)
    @@ <<\h0B27>> :> Rom(<<"D", "H">>)
    @@ <<\h0B28>> :> Rom(<<"N">>)
    @@ <<\h0B2A>> :> Rom(<<"P">>)
    @@ <<\h0B2B>> :> Rom(<<"P", "H">>)
    @@ <<\h0B2C>> :> Rom(<<"B">>)
    @@ <<\h0B2D>> :> Rom(<<"V">>)
    @@ <<\h0B2E>> :> Rom(<<"M">>)
    @@ <<\h0B2F>> :> Rom(<<"J">>)
    @@ <<\h0B30>> :> Rom(<<"R">>)
    @@ <<\h0B32>> :> Rom(<<"L">>)
    @@ <<\h0B33>> :> Rom(<<"L", "H">>)
    @@ <<\h0B35>> :> Rom(<<"B">>)
    @@ <<\h0B36>> :> Rom(<<"S", "H">>)
    @@ <<\h0B37>> :> Rom(<<"S", "H">>)
    @@ <<\h0B38>> :> Rom(<<"S">>)
    @@ <<\h0B39>> :> Rom(<<"H">>)
    @@ <<\h0B5F>> :> Rom(<<"Y">>)
    @@ <<\h0B71>> :> Rom(<<"U", "A">>)

\* var compounds of package odiphone
compoundsODIphone ==
       <<\h0B15, \h0B4D, \h0B24>> :> Rom(<<"K", "2">>)
    @@ <<\h0B19, \h0B4D, \h0B15>> :> Rom(<<"K", "3">>)
    @@ <<\h0B19, \h0B4D, \h0B17>> :> Rom(<<"N", "G">>)
    @@ <<\h0B19, \h0B4D, \h0B18>> :> Rom(<<"N", "G", "2">>)
    @@ <<\h0B1E, \h0B4D, \h0B1C>> :> Rom(<<"N", "J">>)

\* var modifiers of package odiphone
modifiersODIphone ==
       <<\h0B3E>> :> Rom(<<"1">>)
    @@ <<\h0B3C>> :> Rom(<<"2">>)
    @@ <<\h0B4D>> :> Rom(<<"2">>)
    @@ <<\h0B56>> :> Rom(<<"3">>)
    @@ <<\h0B47>> :> Rom(<<"3">>)
    @@ <<\h0B48>> :> Rom(<<"3">>)
    @@ <<\h0B57>> :> Rom(<<"3">>)
    @@ <<\h0B4B>> :> Rom(<<"4">>)
    @@ <<\h0B4C>> :> Rom(<<"4">>)
    @@ <<\h0B3F>> :> Rom(<<"5">>)
    @@ <<\h0B40>> :> Rom(<<"5">>)
    @@ <<\h0B41>> :> Rom(<<"6">>)
    @@ <<\h0B42>> :> Rom(<<"6">>)
    @@ <<\h0B43>> :> Rom(<<"6">>)
    @@ <<\h0B03>> :> Rom(<<"7">>)
    @@ <<\h0B01>> :> Rom(<<"7">>)
    @@ <<\h0B02>> :> Rom(<<"7">>)
    @@ <<\h0B44>> :> Rom(<<"8">>)
    @@ <<\h0B3D>> :> Rom(<<"8">>)

\* var vowels of package odphone
vowelsODphone ==
       <<\h0B05>> :> Rom(<<"A">>)
    @@ <<\h0B06>> :> Rom(<<"A">>)
    @@ <<\h0B07>> :> Rom(<<"E">>)
    @@ <<\h0B08>> :> Rom(<<"E">>)
    @@ <<\h0B09>> :> Rom(<<"U">>)
    @@ <<\h0B0A>> :> Rom(<<"U">>)
    @@ <<\h0B0B>> :> Rom(<<"R">>)
    @@ <<\h0B60>> :> Rom(<<"R">>)
    @@ <<\h0B0F>> :> Rom(<<"E">>)
    @@ <<\h0B10>> :> Rom(<<"E", "I">>)
    @@ <<\h0B13>> :> Rom(<<"O">>)
    @@ <<\h0B14>> :> Rom(<<"O", "U">>)

\* var consonants of package odphone
consonantsODphone ==
       <<\h0B15>> :> Rom(<<"K">>)
    @@ <<\h0B16>> :> Rom(<<"K", "H">>)
    @@ <<\h0B17>> :> Rom(<<"G">>)
    @@ <<\h0B18>> :> Rom(<<"G", "H">>)
    @@ <<\h0B19>> :> Rom(<<"W", "N">>)
    @@ <<\h0B1A>> :> Rom(<<"C", "H">>)
    @@ <<\h0B1B>> :> Rom(<<"C", "H", "H">>)
    @@ <<\h0B1C>> :> Rom(<<"J">>)
    @@ <<\h0B1D>> :> Rom(<<"J", "H">>)
    @@ <<\h0B1E>> :> Rom(<<"N", "Y">>)
    @@ <<\h0B1F>> :> Rom(<<"T">>)
    @@ <<\h0B20>> :> Rom(<<"T", "H">>)
    @@ <<\h0B21>> :> Rom(<<"D">>)
    @@ <<\h0B22>> :> Rom(<<"D", "H">>)
    @@ <<\h0B23>> :> Rom(<<"N">>)
    @@ <<\h0B24>> :> Rom(<<"T">>)
    @@ <<\h0B25>> :> Rom(<<"T", "H">>)
    @@ <<\h0B26>> :> Rom(<<"D">>)
    @@ <<\h0B27>> :> Rom(<<"D", "H">>)
    @@ <<\h0B28>> :> Rom(<<"N">>)
    @@ <<\h0B2A>> :> Rom(<<"P">>)
    @@ <<\h0B2B>> :> Rom(<<"F">>)
    @@ <<\h0B2C>> :> Rom(<<"B">>)
    @@ <<\h0B2D>> :> Rom(<<"V">>)
    @@ <<\h0B2E>> :> Rom(<<"M">>)
    @@ <<\h0B2F>> :> Rom(<<"J">>)
    @@ <<\h0B30>> :> Rom(<<"R">>)
    @@ <<\h0B32>> :> Rom(<<"L">>)
    @@ <<\h0B33>> :> Rom(<<"L", "H">>)
    @@ <<\h0B35>> :> Rom(<<"B">>)
    @@ <<\h0B36>> :> Rom(<<"S", "H">>)
    @@ <<\h0B37>> :> Rom(<<"S", "H">>)
    @@ <<\h0B38>> :> Rom(<<"S">>)
    @@ <<\h0B39>> :> Rom(<<"H">>)
    @@ <<\h0B5F>> :> Rom(<<"Y">>)
    @@ <<\h0B71>> :> Rom(<<"W">>)

\* var compounds of package odphone
compoundsODphone ==
       <<\h0B15, \h0B4D, \h0B24>> :> Rom(<<"K", "2">>)
    @@ <<\h0B19, \h0B4D, \h0B15>> :> Rom(<<"K", "3">>)
    @@ <<\h0B19, \h0B4D, \h0B17>> :> Rom(<<"N", "G">>)
    @@ <<\h0B19, \h0B4D, \h0B18>> :> Rom(<<"N", "G", "2">>)
    @@ <<\h0B1E, \h0B4D, \h0B1C>> :> Rom(<<"N", "J">>)

\* var modifiers of package odphone
modifiersODphone ==
       <<\h0B3E>> :> Rom(<<"1">>)
    @@ <<\h0B3C>> :> Rom(<<"2">>)
    @@ <<\h0B4D>> :> Rom(<<"2">>)
    @@ <<\h0B56>> :> Rom(<<"3">>)
    @@ <<\h0B47>> :> Rom(<<"3">>)
    @@ <<\h0B48>> :> Rom(<<"3">>)
    @@ <<\h0B57>> :> Rom(<<"3">>)
    @@ <<\h0B4B>> :> Rom(<<"4">>)
    @@ <<\h0B4C>> :> Rom(<<"4">>)
    @@ <<\h0B3F>> :> Rom(<<"5">>)
    @@ <<\h0B40>> :> Rom(<<"5">>)
    @@ <<\h0B41>> :> Rom(<<"6">>)
    @@ <<\h0B42>> :> Rom(<<"6">>)
    @@ <<\h0B43>> :> Rom(<<"6">>)
    @@ <<\h0B03>> :> Rom(<<"7">>)
    @@ <<\h0B01>> :> Rom(<<"7">>)
    @@ <<\h0B02>> :> Rom(<<"7">>)
    @@ <<\h0B44>> :> Rom(<<"8">>)
    @@ <<\h0B3D>> :> Rom(<<"8">>)

\* var vowels of the unnamed variant of package odphone
vowelsUnnamed ==
       <<\h0B05>> :> Rom(<<"A">>)
    @@ <<\h0B06>> :> Rom(<<"A">>)
    @@ <<\h0B07>> :> Rom(<<"E">>)
    @@ <<\h0B08>> :> Rom(<<"E">>)
    @@ <<\h0B09>> :> Rom(<<"U">>)
    @@ <<\h0B0A>> :> Rom(<<"U">>)
    @@ <<\h0B0B>> :> Rom(<<"R">>)
    @@ <<\h0B60>> :> Rom(<<"R">>)
    @@ <<\h0B0F>> :> Rom(<<"E">>)
    @@ <<\h0B10>> :> Rom(<<"A", "I">>)
    @@ <<\h0B13>> :> Rom(<<"O">>)
    @@ <<\h0B14>> :> Rom(<<"O">>)

\* var consonants of the unnamed variant of package odphone
consonantsUnnamed ==
       <<\h0B15>> :> Rom(<<"K">>)
    @@ <<\h0B16>> :> Rom(<<"K">>)
    @@ <<\h0B17>> :> Rom(<<"G">>)
    @@ <<\h0B18>> :> Rom(<<"G">>)
    @@ <<\h0B19>> :> Rom(<<"W", "N">>)
    @@ <<\h0B1A>> :> Rom(<<"C">>)
    @@ <<\h0B1B>> :> Rom(<<"C">>)
    @@ <<\h0B1C>> :> Rom(<<"J">>)
    @@ <<\h0B1D>> :> Rom(<<"J">>)
    @@ <<\h0B1E>> :> Rom(<<"N">>)
    @@ <<\h0B1F>> :> Rom(<<"T">>)
    @@ <<\h0B20>> :> Rom(<<"T">>)
    @@ <<\h0B21>> :> Rom(<<"D">>)
    @@ <<\h0B22>> :> Rom(<<"D">>)
    @@ <<\h0B23>> :> Rom(<<"N">>)
    @@ <<\h0B24>> :> Rom(<<"T">>)
    @@ <<\h0B25>> :> Rom(<<"T">>)
    @@ <<\h0B26>> :> Rom(<<"D">>)
    @@ <<\h0B27>> :> Rom(<<"D">>)
    @@ <<\h0B28>> :> Rom(<<"N">>)
    @@ <<\h0B2A>> :> Rom(<<"P">>)
    @@ <<\h0B2B>> :> Rom(<<"F">>)
    @@ <<\h0B2C>> :> Rom(<<"B">>)
    @@ <<\h0B2D>> :> Rom(<<"V">>)
    @@ <<\h0B2E>> :> Rom(<<"M">>)
    @@ <<\h0B2F>> :> Rom(<<"J">>)
    @@ <<\h0B30>> :> Rom(<<"R">>)
    @@ <<\h0B32>> :> Rom(<<"L">>)
    @@ <<\h0B33>> :> Rom(<<"L">>)
    @@ <<\h0B35>> :> Rom(<<"B">>)
    @@ <<\h0B36>> :> Rom(<<"S">>)
    @@ <<\h0B37>> :> Rom(<<"S">>)
    @@ <<\h0B38>> :> Rom(<<"S">>)
    @@ <<\h0B39>> :> Rom(<<"H">>)
    @@ <<\h0B5F>> :> Rom(<<"Y">>)
    @@ <<\h0B71>> :> Rom(<<"W">>)

\* var compounds of the unnamed variant of package odphone
compoundsUnnamed ==
       <<\h0C95, \h0CCD, \h0C95>> :> Rom(<<"K", "2">>)
    @@ <<\h0C97, \h0CCD, \h0C97, \h0CBE>> :> Rom(<<"K">>)
    @@ <<\h0C99, \h0CCD, \h0C99>> :> Rom(<<"N", "G">>)
    @@ <<\h0C9A, \h0CCD, \h0C9A>> :> Rom(<<"C", "2">>)
    @@ <<\h0C9C, \h0CCD, \h0C9C>> :> Rom(<<"J">>)
    @@ <<\h0C9E, \h0CCD, \h0C9E>> :> Rom(<<"N", "J">>)
    @@ <<\h0C9F, \h0CCD, \h0C9F>> :> Rom(<<"T", "2">>)
    @@ <<\h0CA3, \h0CCD, \h0CA3>> :> Rom(<<"N", "2">>)
    @@ <<\h0CA4, \h0CCD, \h0CA4>> :> Rom(<<"0">>)
    @@ <<\h0CA6, \h0CCD, \h0CA6>> :> Rom(<<"D">>)
    @@ <<\h0CA6, \h0CCD, \h0CA7>> :> Rom(<<"D">>)
    @@ <<\h0CA8, \h0CCD, \h0CA8>> :> Rom(<<"N", "N">>)
    @@ <<\h0CAC, \h0CCD, \h0CAC>> :> Rom(<<"B">>)
    @@ <<\h0CAA, \h0CCD, \h0CAA>> :> Rom(<<"P", "2">>)
    @@ <<\h0CAE, \h0CCD, \h0CAE>> :> Rom(<<"M", "2">>)
    @@ <<\h0CAF, \h0CCD, \h0CAF>> :> Rom(<<"Y">>)
    @@ <<\h0CB2, \h0CCD, \h0CB2>> :> Rom(<<"L", "2">>)
    @@ <<\h0CB5, \h0CCD, \h0CB5>> :> Rom(<<"V">>)
    @@ <<\h0CB6, \h0CCD, \h0CB6>> :> Rom(<<"S", "1">>)
    @@ <<\h0CB8, \h0CCD, \h0CB8>> :> Rom(<<"S">>)
    @@ <<\h0CB3, \h0CCD, \h0CB3>> :> Rom(<<"L", "1", "2">>)
    @@ <<\h0C95, \h0CCD, \h0CB7>> :> Rom(<<"K", "S", "1">>)

\* var modifiers of the unnamed variant of package odphone
modifiersUnnamed ==
       <<\h0B01>> :> Rom(<<"1">>)
    @@ <<\h0B02>> :> Rom(<<"1">>)
    @@ <<\h0B03>> :> Rom(<<"3">>)
    @@ <<\h0B3C>> :> Rom(<<"4">>)
    @@ <<\h0B3D>> :> Rom(<<>>)
    @@ <<\h0B3E>> :> Rom(<<"6">>)
    @@ <<\h0B3F>> :> Rom(<<"7">>)
    @@ <<\h0B40>> :> Rom(<<"7">>)
    @@ <<\h0B41>> :> Rom(<<"8">>)
    @@ <<\h0B42>> :> Rom(<<"8">>)
    @@ <<\h0B43>> :> Rom(<<"9">>)
    @@ <<\h0B44>> :> Rom(<<"9">>)
    @@ <<\h0B47>> :> Rom(<<"2">>)
    @@ <<\h0B48>> :> Rom(<<"2">>)
    @@ <<\h0B4B>> :> Rom(<<"5">>)
    @@ <<\h0B4C>> :> Rom(<<"5">>)
    @@ <<\h0B4D>> :> Rom(<<"4">>)
    @@ <<\h0B56>> :> Rom(<<"2">>)
    @@ <<\h0B57>> :> Rom(<<>>)

----------------------------------------------------------------------------
(* The three variants of the package held by the repository *)

Variants == {"odiphone", "odphone", "unnamed"}

\* The four maps of each variant.
tables ==
    [v \in Variants |->
        CASE v = "odiphone" ->
               [vowels |-> vowelsODIphone, consonants |-> consonantsODIphone,
                compounds |-> compoundsODIphone, modifiers |-> modifiersODIphone]
          [] v = "odphone" ->
               [vowels |-> vowelsODphone, consonants |-> consonantsODphone,
                compounds |-> compoundsODphone, modifiers |-> modifiersODphone]
          [] OTHER ->
               [vowels |-> vowelsUnnamed, consonants |-> consonantsUnnamed,
                compounds |-> compoundsUnnamed, modifiers |-> modifiersUnnamed]]

vowels     == tables[variant].vowels
consonants == tables[variant].consonants
compounds  == tables[variant].compounds
modifiers  == tables[variant].modifiers

----------------------------------------------------------------------------
(* package strings *)

\* Whether p occurs in s at index i.
HasPrefixAt(s, i, p) ==
    /\ i + Len(p) - 1 <= Len(s)
    /\ \A j \in 1..Len(p) : s[i + j - 1] = p[j]

Contains(s, p) == \E i \in 1..Len(s) : HasPrefixAt(s, i, p)

RECURSIVE ReplaceFrom(_, _, _, _)
ReplaceFrom(s, i, old, new) ==
    IF i > Len(s) THEN <<>>
    ELSE IF HasPrefixAt(s, i, old)
         THEN new \o ReplaceFrom(s, i + Len(old), old, new)
         ELSE <<s[i]>> \o ReplaceFrom(s, i + 1, old, new)

\* strings.ReplaceAll(s, old, new) for a non-empty old (every table key is
\* non-empty): the leftmost non-overlapping occurrences, left to right.
ReplaceAll(s, old, new) == ReplaceFrom(s, 1, old, new)

\* strings.Trim(s, cutset) with the empty cutset of process: nothing is cut.
Trim(s) == s

----------------------------------------------------------------------------
(* package regexp: the character-class patterns of the package level *)

\* unicode.Scripts, restricted to the script the valid patterns name, as
\* inclusive code point ranges.  "Odia" is no key of unicode.Scripts.
unicodeScripts ==
    [Oriya |-> { <<\h0B01, \h0B03>>, <<\h0B05, \h0B0C>>, <<\h0B0F, \h0B10>>,
                 <<\h0B13, \h0B28>>, <<\h0B2A, \h0B30>>, <<\h0B32, \h0B33>>,
                 <<\h0B35, \h0B39>>, <<\h0B3C, \h0B44>>, <<\h0B47, \h0B48>>,
                 <<\h0B4B, \h0B4D>>, <<\h0B55, \h0B57>>, <<\h0B5C, \h0B5D>>,
                 <<\h0B5F, \h0B63>>, <<\h0B66, \h0B77>> }]

InRanges(c, ranges) == \E r \in ranges : r[1] <= c /\ c <= r[2]

\* The nil *regexp.Regexp that regexp.Compile returns beside an error.
NilClass == [nil |-> TRUE, neg |-> FALSE, ranges |-> {}, notScripts |-> {}]

\* regexp.Compile of a one-character class: [ranges \P{s}...] or, negated,
\* [^ranges].  A \P{s} with s unknown to unicode.Scripts is a parse error.
CompileClass(neg, ranges, notScripts) ==
    IF notScripts \subseteq DOMAIN unicodeScripts
    THEN [nil |-> FALSE, neg |-> neg, ranges |-> ranges, notScripts |-> notScripts]
    ELSE NilClass

\* Whether the compiled class matches the character c.
MatchClass(re, c) ==
    LET in == \/ InRanges(c, re.ranges)
              \/ \E sc \in re.notScripts : ~InRanges(c, unicodeScripts[sc])
    IN  IF re.neg THEN ~in ELSE in

RECURSIVE ClassReplaceFrom(_, _, _, _)
ClassReplaceFrom(re, s, i, repl) ==
    IF i > Len(s) THEN <<>>
    ELSE (IF MatchClass(re, s[i]) THEN repl ELSE <<s[i]>>)
         \o ClassReplaceFrom(re, s, i + 1, repl)

\* (*Regexp).ReplaceAllString for a one-character class.
ReplaceAllString(re, s, repl) == ClassReplaceFrom(re, s, 1, repl)

Digit(a, b) == <<Chr[a], Chr[b]>>

\* regexKey0 written `[1-6]`: the modifier digits 7 and 8 are kept.
regexKey0Short == CompileClass(FALSE, {Digit("1", "6")}, {})

regexKey0 ==
    IF variant = "unnamed"
    THEN CompileClass(FALSE, {Digit("1", "1"), Digit(",", ","), Digit("2", "2"),
                              Digit("4", "9")}, {})
    ELSE CompileClass(FALSE, {Digit("1", "8")}, {})

\* regexKey1 written `[8]`: the digit 7 is kept.
regexKey1Short == CompileClass(FALSE, {Digit("8", "8")}, {})

regexKey1 ==
    IF variant = "unnamed"
    THEN CompileClass(FALSE, {Digit("2", "2"), Digit(",", ","), Digit("4", "9")}, {})
    ELSE CompileClass(FALSE, {Digit("7", "8")}, {})

\* regexNonOdia written `\p{Oriya}`: the script is deleted, the rest kept.
regexOdia == CompileClass(TRUE, {}, {"Oriya"})

regexNonOdia ==
    IF variant = "unnamed"
    THEN CompileClass(FALSE, {}, {"Odia"})
    ELSE CompileClass(FALSE, {}, {"Oriya"})

\* regexAlphaNum with a \d that matches the digits of every script.
regexAlphaNumAnyDigit ==
    CompileClass(TRUE, {Digit("0", "9"), Digit("A", "Z"), <<\h0B66, \h0B6F>>}, {})

\* regexAlphaNum written `[^\dA-Z{}]`: the braces are kept.
regexAlphaNumBraces ==
    CompileClass(TRUE, {Digit("0", "9"), Digit("A", "Z"), Digit("{", "{"),
                        Digit("}", "}")}, {})

\* \d is the ASCII class [0-9] in Go's regexp syntax.
regexAlphaNum == CompileClass(TRUE, {Digit("0", "9"), Digit("A", "Z")}, {})

----------------------------------------------------------------------------
(* package regexp: the glyph+modifier alternations built by New *)

\* The characters with a meaning in a pattern; no key of any table holds one.
MetaChars == { Chr[c] : c \in {"(", ")", "*", "+", ".", "?", "[", "]", "^",
                                "|", "$", "\\", "{", "}"} }

NilMatcher == [nil |-> TRUE, glyphs |-> <<>>, mods |-> <<>>]

\* regexp.Compile(`((` + Join(glyphs, "|") + `)(` + Join(mods, "|") + `))`):
\* the alternatives are kept in the order of the two slices.
CompileGlyphMod(glyphs, mods) ==
    IF \E i \in DOMAIN glyphs : \E j \in DOMAIN glyphs[i] : glyphs[i][j] \in MetaChars
    THEN NilMatcher
    ELSE [nil |-> FALSE, glyphs |-> glyphs, mods |-> mods]

\* The match of r that starts at index i of s, as the submatch slice
\* <<whole, group 1, group 2, group 3>>, or <<>> when there is none.  The
\* alternation is leftmost-first: the earliest glyph alternative that lets
\* the whole pattern match wins, then the earliest modifier alternative.
MatchAt(r, s, i) ==
    LET gs == { gi \in DOMAIN r.glyphs :
                  /\ HasPrefixAt(s, i, r.glyphs[gi])
                  /\ \E mi \in DOMAIN r.mods :
                        HasPrefixAt(s, i + Len(r.glyphs[gi]), r.mods[mi]) }
    IN  IF gs = {} THEN <<>>
        ELSE LET gi == CHOOSE x \in gs : \A y \in gs : x <= y
                 g  == r.glyphs[gi]
                 ms == { mi \in DOMAIN r.mods : HasPrefixAt(s, i + Len(g), r.mods[mi]) }
                 mi == CHOOSE x \in ms : \A y \in ms : x <= y
                 m  == r.mods[mi]
             IN  <<g \o m, g \o m, g, m>>

RECURSIVE FindFrom(_, _, _)
FindFrom(r, s, i) ==
    IF i > Len(s) THEN <<>>
    ELSE LET m == MatchAt(r, s, i)
         IN  IF m = <<>> THEN FindFrom(r, s, i + 1)
             ELSE <<m>> \o FindFrom(r, s, i + Len(m[1]))

\* (*Regexp).FindAllStringSubmatch(s, -1): the successive non-overlapping
\* matches, leftmost first.
FindAllStringSubmatch(r, s) == FindFrom(r, s, 1)

----------------------------------------------------------------------------
(* Enumeration of a Go map by range: every key once, in an order the       *)
(* language leaves unspecified                                             *)

\* Lexicographic order of two strings by code point.
RECURSIVE Less(_, _)
Less(a, b) ==
    IF b = <<>> THEN FALSE
    ELSE IF a = <<>> THEN TRUE
    ELSE IF a[1] # b[1] THEN a[1] < b[1]
    ELSE Less(Tail(a), Tail(b))

RECURSIVE Ascending(_)
Ascending(S) ==
    IF S = {} THEN <<>>
    ELSE LET x == CHOOSE x \in S : \A y \in S : x = y \/ Less(x, y)
         IN  <<x>> \o Ascending(S \ {x})

Reverse(q) == [i \in DOMAIN q |-> q[Len(q) + 1 - i]]

\* The keys of each map in ascending order.
ascending ==
    [v \in Variants |->
        [t \in {"vowels", "consonants", "compounds", "modifiers"} |->
            Ascending(DOMAIN tables[v][t])]]

\* The keys of the map named t as `for k := range` yields them when a slice
\* is built from them: ascending, or descending.
Yield(t, up) ==
    IF up THEN ascending[variant][t] ELSE Reverse(ascending[variant][t])

----------------------------------------------------------------------------
(* New *)

\* The encoder New returns when its four range loops yield the keys of
\* modifiers, compounds, consonants and vowels in the orders mo, co, ko, vo.
NewWith(mo, co, ko, vo) ==
    [ modCompounds  |-> CompileGlyphMod(co, mo),
      modConsonants |-> CompileGlyphMod(ko, mo),
      modVowels     |-> CompileGlyphMod(vo, mo) ]

\* The encoders New is taken to return: the modifiers yielded in one
\* direction, the glyphs of the three other tables in one direction.
Encoders ==
    { NewWith(Yield("modifiers", mu), Yield("compounds", gu),
              Yield("consonants", gu), Yield("vowels", gu)) : mu, gu \in BOOLEAN }

----------------------------------------------------------------------------
(* replaceModifiedGlyphs and the passes of process *)

RECURSIVE Flatten(_)
Flatten(qs) == IF qs = <<>> THEN <<>> ELSE Head(qs) \o Flatten(Tail(qs))

RECURSIVE ReplaceEach(_, _, _)
ReplaceEach(input, glyphs, ms) ==
    IF ms = <<>> \/ input = <<>> THEN input
    ELSE LET m == Head(ms)
         IN  ReplaceEach(IF m \in DOMAIN glyphs
                         THEN ReplaceAll(input, m, glyphs[m])
                         ELSE input,
                         glyphs, Tail(ms))

RECURSIVE ReplacePairs(_, _, _)
ReplacePairs(input, glyphs, matches) ==
    IF matches = <<>> \/ input = <<>> THEN input
    ELSE LET m == Head(matches)
         IN  ReplacePairs(IF m[3] \in DOMAIN glyphs
                          THEN ReplaceAll(input, m[1], glyphs[m[3]])
                          ELSE input,
                          glyphs, Tail(matches))

\* replaceModifiedGlyphs replacing the whole match, glyph and modifier mark,
\* by the glyph's code.
replaceModifiedPairs(input, glyphs, r) ==
    ReplacePairs(input, glyphs, FindAllStringSubmatch(r, input))

\* replaceModifiedGlyphs finding no match.
replaceNoGlyphs(input, glyphs, r) == input

\* The matches are found once, in the input as passed; then, match by match
\* and submatch by submatch, every submatch that is a key of glyphs is
\* replaced by its code throughout the current input.
replaceModifiedGlyphs(input, glyphs, r) ==
    ReplaceEach(input, glyphs, Flatten(FindAllStringSubmatch(r, input)))

\* `{` + v + `}`
Wrap(v) == Rom(<<"{">>) \o v \o Rom(<<"}">>)

\* One iteration of `for k, v := range table` in process.
RangeBody(input, table, k, wrapped) ==
    ReplaceAll(input, k, IF wrapped THEN Wrap(table[k]) ELSE table[k])

\* (Nothing is left to replace in an empty input.)
RECURSIVE RangeFrom(_, _, _, _, _)
RangeFrom(input, table, keys, i, wrapped) ==
    IF i > Len(keys) \/ input = <<>> THEN input
    ELSE RangeFrom(RangeBody(input, table, keys[i], wrapped), table, keys,
                   i + 1, wrapped)

\* The whole loop, its keys yielded in the order of the sequence keys.
RangeAll(input, table, keys, wrapped) == RangeFrom(input, table, keys, 1, wrapped)

\* process with its four range loops yielding their keys in the orders co
\* (compounds), ko (consonants), vo (vowels) and mo (modifiers), on the
\* encoder e; regexNonOdia is taken to be usable.
processWith(e, word, co, ko, vo, mo) ==
    LET s0 == ReplaceAllString(regexNonOdia, Trim(word), <<>>)
        s1 == replaceModifiedGlyphs(s0, compounds, e.modCompounds)
        s2 == RangeAll(s1, compounds, co, TRUE)
        s3 == replaceModifiedGlyphs(s2, consonants, e.modConsonants)
        s4 == replaceModifiedGlyphs(s3, vowels, e.modVowels)
        s5 == RangeAll(s4, consonants, ko, TRUE)
        s6 == RangeAll(s5, vowels, vo, TRUE)
        s7 == RangeAll(s6, modifiers, mo, FALSE)
    IN  ReplaceAllString(regexAlphaNum, s7, <<>>)

\* Encode(word) run alone on the encoder built with every range loop, of New
\* and of process, yielding its keys in ascending order: <<key0, key1, key2>>.
EncodeAlone(word) ==
    LET mo   == Yield("modifiers", TRUE)
        co   == Yield("compounds", TRUE)
        ko   == Yield("consonants", TRUE)
        vo   == Yield("vowels", TRUE)
        key2 == processWith(NewWith(mo, co, ko, vo), word, co, ko, vo, mo)
    IN  << ReplaceAllString(regexKey0, key2, <<>>),
           ReplaceAllString(regexKey1, key2, <<>>),
           key2 >>

----------------------------------------------------------------------------
(* The inputs *)

\* Longest enumerated word.
MaxLen == 3

\* Most goroutines sharing one encoder.
MaxGoroutines == 2

KA      == \h0B15
TA      == \h0B24
VIRAMA  == \h0B4D
A       == \h0B05
ANUSVARA == \h0B02
ZERO    == \h0B66

\* One character of each kind: two consonants that form a compound with the
\* virama, a vowel, a second modifier, a character of the script that is in
\* no table (the Odia digit zero) and a character outside the script.
Alphabet == {KA, TA, VIRAMA, A, ANUSVARA, ZERO, Chr["A"]}

BoundedWords == UNION { [1..n -> Alphabet] : n \in 0..MaxLen }

\* The words of TestODIPhone.
Ansha    == <<\h0B05, \h0B02, \h0B36>>
Vramara  == <<\h0B2D, \h0B4D, \h0B30, \h0B2E, \h0B30>>
Vramare  == <<\h0B2D, \h0B4D, \h0B30, \h0B2E, \h0B30, \h0B47>>
Vramana  == <<\h0B2D, \h0B4D, \h0B30, \h0B2E, \h0B23>>
TestWords == {Ansha, Vramara, Vramare, Vramana}

\* Two compound keys sharing a consonant, and a word with two clusters.
Overlap     == <<\h0B19, \h0B4D, \h0B15, \h0B4D, \h0B24>>
TwoClusters == <<\h0B15, \h0B4D, \h0B24, \h0B3E>> \o Overlap

\* A bare vowel before a bare compound.
Akta == <<A, KA, VIRAMA, TA>>

\* Every compound key, alone and followed by each modifier mark.
CompoundWords ==
    DOMAIN compoundsODIphone
    \cup { c \o m : c \in DOMAIN compoundsODIphone, m \in DOMAIN modifiersODIphone }

\* w with the character c put in before index i.
Insert(w, i, c) == SubSeq(w, 1, i - 1) \o <<c>> \o SubSeq(w, i, Len(w))

\* Characters outside the script: a brace, a digit, a Latin letter.
Foreign == { Chr[c] : c \in {"{", "9", "a"} }

\* The compound keys and the first test word with one foreign character put
\* in at every position.
MixedWords ==
    { Insert(w, i, c) : w \in DOMAIN compoundsODIphone \cup {Ansha},
                        i \in 1..4, c \in Foreign }

Words == BoundedWords \cup TestWords \cup {Overlap, TwoClusters, Akta}
         \cup CompoundWords \cup MixedWords

\* The words the goroutines of the concurrent runs encode.
SharedWords == {Ansha, Akta}

----------------------------------------------------------------------------
(* State *)

\* calls[g]: the Encode call goroutine g is in.  word is the argument, input
\* the local of process, todo the keys its current range loop has not yet
\* yielded, key0..key2 the results.
Idle == [pc |-> "idle", word |-> <<>>, input |-> <<>>, todo |-> {},
         key0 |-> <<>>, key1 |-> <<>>, key2 |-> <<>>]

At(g, pc) == calls[g].pc = pc

Set(g, c) == calls' = [calls EXCEPT ![g] = c]

Init ==
    /\ variant = "odiphone"
    /\ od \in Encoders
    /\ calls = [g \in 1..1 |-> Idle]

\* One encoder shared by MaxGoroutines goroutines.
InitShared ==
    /\ variant = "odiphone"
    /\ od \in Encoders
    /\ calls = [g \in 1..MaxGoroutines |-> Idle]

\* Any of the three variants of the package.
InitVariants ==
    /\ variant \in Variants
    /\ od \in Encoders
    /\ calls = [g \in 1..1 |-> Idle]

----------------------------------------------------------------------------
(* Actions *)

\* od = New(), while no call is running on the encoder it replaces.
New ==
    /\ \A g \in DOMAIN calls : At(g, "idle")
    /\ od' \in Encoders
    /\ UNCHANGED <<variant, calls>>

Enter(g, w) ==
    /\ Set(g, [Idle EXCEPT !.pc = "process", !.word = w, !.input = w])
    /\ UNCHANGED <<variant, od>>

\* od.Encode(w) is called.
Encode(g) == At(g, "idle") /\ \E w \in Words : Enter(g, w)

\* go od.Encode(w), on the shared encoder.
Go(g) == At(g, "idle") /\ \E w \in SharedWords : Enter(g, w)

\* process keeping its buffer in the encoder: the filtered input becomes the
\* input of every call.
FilterIntoShared(g) ==
    /\ At(g, "process")
    /\ ~regexNonOdia.nil
    /\ LET s0 == ReplaceAllString(regexNonOdia, Trim(calls[g].input), <<>>)
       IN  calls' = [h \in DOMAIN calls |->
                       IF h = g
                       THEN [calls[h] EXCEPT !.pc = "modCompounds", !.input = s0]
                       ELSE IF calls[h].pc \in {"idle", "done"} THEN calls[h]
                       ELSE [calls[h] EXCEPT !.input = s0]]
    /\ UNCHANGED <<variant, od>>

\* process: the script filter.  A nil regexNonOdia is dereferenced.
FilterNonOdia(g) ==
    /\ At(g, "process")
    /\ IF regexNonOdia.nil
       THEN Set(g, [calls[g] EXCEPT !.pc = "panic"])
       ELSE Set(g, [calls[g] EXCEPT
                     !.pc = "modCompounds",
                     !.input = ReplaceAllString(regexNonOdia, Trim(@), <<>>)])
    /\ UNCHANGED <<variant, od>>

\* A replaceModifiedGlyphs pass of process, from pc `at` to pc `next`; the
\* range loop entered after it, if any, has all the keys of `loop` to yield.
ModifiedPass(g, at, glyphs, r, next, loop) ==
    /\ At(g, at)
    /\ IF r.nil
       THEN Set(g, [calls[g] EXCEPT !.pc = "panic"])
       ELSE Set(g, [calls[g] EXCEPT
                     !.pc = next,
                     !.input = replaceModifiedGlyphs(@, glyphs, r),
                     !.todo = loop])
    /\ UNCHANGED <<variant, od>>

\* The modified compounds replaced and the bare ones left to the consonant
\* passes.
ModCompoundsOnly(g) ==
    ModifiedPass(g, "modCompounds", compounds, od.modCompounds,
                 "modConsonants", {})

ModCompounds(g) ==
    ModifiedPass(g, "modCompounds", compounds, od.modCompounds,
                 "compounds", DOMAIN compounds)

ModConsonants(g) ==
    ModifiedPass(g, "modConsonants", consonants, od.modConsonants,
                 "modVowels", {})

ModVowels(g) ==
    ModifiedPass(g, "modVowels", vowels, od.modVowels,
                 "consonants", DOMAIN consonants)

\* One iteration of a range loop of process: the map yields any key it has
\* not yet yielded.  Only the iterations whose key occurs in input are
\* steps of their own: the others leave input as it is, and no replacement
\* brings a key back into input, since every code is Latin letters, digits
\* and braces.
RangeStep(g, at, table, wrapped) ==
    /\ At(g, at)
    /\ \E k \in calls[g].todo :
         /\ Contains(calls[g].input, k)
         /\ Set(g, [calls[g] EXCEPT
                     !.input = RangeBody(@, table, k, wrapped),
                     !.todo = @ \ {k}])
    /\ UNCHANGED <<variant, od>>

\* The rest of a range loop, no key of which occurs in input, and the exit
\* to pc `next`; the loop entered there has the keys of `loop` to yield.
RangeExit(g, at, next, loop) ==
    /\ At(g, at)
    /\ \A k \in calls[g].todo : ~Contains(calls[g].input, k)
    /\ Set(g, [calls[g] EXCEPT !.pc = next, !.todo = loop])
    /\ UNCHANGED <<variant, od>>

RangeCompounds(g) == RangeStep(g, "compounds", compounds, TRUE)
ExitCompounds(g)  == RangeExit(g, "compounds", "modConsonants", {})

RangeConsonants(g) == RangeStep(g, "consonants", consonants, TRUE)
ExitConsonants(g)  == RangeExit(g, "consonants", "vowels", DOMAIN vowels)

RangeVowels(g) == RangeStep(g, "vowels", vowels, TRUE)
ExitVowels(g)  == RangeExit(g, "vowels", "modifiers", DOMAIN modifiers)

RangeModifiers(g) == RangeStep(g, "modifiers", modifiers, FALSE)
ExitModifiers(g)  == RangeExit(g, "modifiers", "alphanum", {})

\* process returns: key2.
AlphaNum(g) ==
    /\ At(g, "alphanum")
    /\ Set(g, [calls[g] EXCEPT
                !.pc = "key1",
                !.key2 = ReplaceAllString(regexAlphaNum, calls[g].input, <<>>),
                !.input = <<>>])
    /\ UNCHANGED <<variant, od>>

Key1(g) ==
    /\ At(g, "key1")
    /\ Set(g, [calls[g] EXCEPT
                !.pc = "key0",
                !.key1 = ReplaceAllString(regexKey1, calls[g].key2, <<>>)])
    /\ UNCHANGED <<variant, od>>

\* Encode has its three results: the call is done.
Key0(g) ==
    /\ At(g, "key0")
    /\ Set(g, [calls[g] EXCEPT
                !.pc = "done",
                !.key0 = ReplaceAllString(regexKey0, calls[g].key2, <<>>)])
    /\ UNCHANGED <<variant, od>>

\* The caller has taken the triple; goroutine g may call again.
Return(g) ==
    /\ At(g, "done")
    /\ Set(g, Idle)
    /\ UNCHANGED <<variant, od>>

Pass(g) ==
    \/ FilterNonOdia(g)
    \/ ModCompounds(g)
    \/ RangeCompounds(g)
    \/ ExitCompounds(g)
    \/ ModConsonants(g)
    \/ ModVowels(g)
    \/ RangeConsonants(g)
    \/ ExitConsonants(g)
    \/ RangeVowels(g)
    \/ ExitVowels(g)
    \/ RangeModifiers(g)
    \/ ExitModifiers(g)
    \/ AlphaNum(g)
    \/ Key1(g)
    \/ Key0(g)
    \/ Return(g)

Next == New \/ \E g \in DOMAIN calls : Encode(g) \/ Pass(g)

NextShared == \E g \in DOMAIN calls : Go(g) \/ Pass(g)

Spec == Init /\ [][Next]_vars

SpecShared == InitShared /\ [][NextShared]_vars

SpecVariants == InitVariants /\ [][Next]_vars

----------------------------------------------------------------------------
(* Properties *)

Done(g) == At(g, "done")

\* The triple Encode returns: key0, key1, key2.
Result(g) == <<calls[g].key0, calls[g].key1, calls[g].key2>>

Chars(w) == { w[i] : i \in DOMAIN w }

Letters == Chr["A"]..Chr["Z"]
Digits  == Chr["0"]..Chr["9"]

Without(key, set) == SelectSeq(key, LAMBDA c : c \notin set)

RECURSIVE IsSubsequence(_, _)
IsSubsequence(a, b) ==
    IF a = <<>> THEN TRUE
    ELSE IF b = <<>> THEN FALSE
    ELSE IF a[1] = b[1] THEN IsSubsequence(Tail(a), Tail(b))
    ELSE IsSubsequence(a, Tail(b))

\* C1: the three words of TestODIPhone that begin with U+0B2D U+0B4D are
\* encoded as the test and the README give them: (BHRMR, BH2RMR, BH2RMR),
\* (BHRMR, BH2RMR3, BH2RMR3) and (BHRMNH, BH2RMNH, BH2RMNH).
GoldenVrama ==
    \A g \in DOMAIN calls : Done(g) =>
        /\ calls[g].word = Vramara =>
             Result(g) = << Rom(<<"B", "H", "R", "M", "R">>),
                            Rom(<<"B", "H", "2", "R", "M", "R">>),
                            Rom(<<"B", "H", "2", "R", "M", "R">>) >>
        /\ calls[g].word = Vramare =>
             Result(g) = << Rom(<<"B", "H", "R", "M", "R">>),
                            Rom(<<"B", "H", "2", "R", "M", "R", "3">>),
                            Rom(<<"B", "H", "2", "R", "M", "R", "3">>) >>
        /\ calls[g].word = Vramana =>
             Result(g) = << Rom(<<"B", "H", "R", "M", "N", "H">>),
                            Rom(<<"B", "H", "2", "R", "M", "N", "H">>),
                            Rom(<<"B", "H", "2", "R", "M", "N", "H">>) >>

\* C2: Encode of U+0B05 U+0B02 U+0B36 returns key0 = ASH, key1 = ASH and
\* key2 = A7SH.
GoldenAnsha ==
    \A g \in DOMAIN calls : Done(g) /\ calls[g].word = Ansha =>
        Result(g) = << Rom(<<"A", "S", "H">>), Rom(<<"A", "S", "H">>),
                       Rom(<<"A", "7", "S", "H">>) >>

AnshaEncoded == \E g \in DOMAIN calls : Done(g) /\ calls[g].word = Ansha

\* The digits regexKey1 deletes, and those regexKey0 deletes.
NarrowSet == { c \in Digits : MatchClass(regexKey1, c) }
BroadSet  == { c \in Digits : MatchClass(regexKey0, c) }

\* C3: key1 is key2 without the digits of the narrow set, key0 is key1
\* without the digits of the broad set, which includes the narrow set; the
\* three keys have the same letters in the same order, key0 is a subsequence
\* of key1 and key1 of key2, and the lengths do not decrease.
MonotonicReduction ==
    \A g \in DOMAIN calls : Done(g) =>
        LET key0 == calls[g].key0
            key1 == calls[g].key1
            key2 == calls[g].key2
        IN  /\ NarrowSet \subseteq BroadSet
            /\ key1 = Without(key2, NarrowSet)
            /\ key0 = Without(key1, BroadSet)
            /\ Without(key0, Digits) = Without(key1, Digits)
            /\ Without(key1, Digits) = Without(key2, Digits)
            /\ IsSubsequence(key0, key1)
            /\ IsSubsequence(key1, key2)
            /\ Len(key0) <= Len(key1)
            /\ Len(key1) <= Len(key2)

\* A call whose key2 holds a digit of the narrow set and one of the rest of
\* the broad set, so that the three keys differ.
ReducedTwice ==
    \E g \in DOMAIN calls :
        /\ Done(g)
        /\ Chars(calls[g].key2) \cap NarrowSet # {}
        /\ Chars(calls[g].key1) \cap BroadSet # {}
        /\ Len(calls[g].key0) < Len(calls[g].key1)
        /\ Len(calls[g].key1) < Len(calls[g].key2)

\* C4: every character of the three keys is an uppercase Latin letter or an
\* ASCII digit.
AlphabetClosure ==
    \A g \in DOMAIN calls : Done(g) =>
        \A i \in 1..3 : Chars(Result(g)[i]) \subseteq Letters \cup Digits

\* A call, with a non-empty key2, on a word that holds a character of the
\* script that is in no table and a character outside the script.
UnknownAndForeignEncoded ==
    \E g \in DOMAIN calls :
        /\ Done(g)
        /\ calls[g].key2 # <<>>
        /\ ZERO \in Chars(calls[g].word)
        /\ Chr["A"] \in Chars(calls[g].word)

\* C5: every call returns the triple of Encode run alone with every range
\* loop ascending, whatever the encoder New built and whatever the order in
\* which the range loops of process yield their keys.
Deterministic ==
    \A g \in DOMAIN calls : Done(g) => Result(g) = EncodeAlone(calls[g].word)

\* A call on the word of the two overlapping compound keys, on an encoder
\* built with every range loop of New descending.
OverlapOnOtherEncoder ==
    \E g \in DOMAIN calls :
        /\ Done(g)
        /\ calls[g].word = Overlap
        /\ od = NewWith(Yield("modifiers", FALSE), Yield("compounds", FALSE),
                        Yield("consonants", FALSE), Yield("vowels", FALSE))

\* The codes of the three characters of a compound key, each on its own.
Constituents(c) ==
    consonants[<<c[1]>>] \o modifiers[<<c[2]>>] \o consonants[<<c[3]>>]

\* C6: a word that is a compound key has the compound's code as key2, and a
\* compound key followed by a modifier mark has the compound's code followed
\* by the mark's code; neither is what the characters give one by one.
CompoundPriority ==
    \A g \in DOMAIN calls : Done(g) =>
        LET w == calls[g].word
        IN  /\ w \in DOMAIN compounds =>
                /\ calls[g].key2 = compounds[w]
                /\ calls[g].key2 # Constituents(w)
            /\ \A c \in DOMAIN compounds : \A m \in DOMAIN modifiers :
                 w = c \o m =>
                   /\ calls[g].key2 = compounds[c] \o modifiers[m]
                   /\ calls[g].key2 # Constituents(c) \o modifiers[m]

\* A call on the compound key U+0B19 U+0B4D U+0B18 followed by the modifier
\* mark U+0B3E.
ModifiedCompoundEncoded ==
    \E g \in DOMAIN calls :
        /\ Done(g)
        /\ calls[g].word = <<\h0B19, \h0B4D, \h0B18, \h0B3E>>

\* C7: in every variant no call panics, and every pattern is a usable
\* matcher when process calls it.
Totality ==
    \A g \in DOMAIN calls :
        /\ ~At(g, "panic")
        /\ At(g, "process") => ~regexNonOdia.nil
        /\ At(g, "modCompounds") => ~od.modCompounds.nil
        /\ At(g, "modConsonants") => ~od.modConsonants.nil
        /\ At(g, "modVowels") => ~od.modVowels.nil
        /\ At(g, "alphanum") => ~regexAlphaNum.nil
        /\ At(g, "key1") => ~regexKey1.nil
        /\ At(g, "key0") => ~regexKey0.nil

\* The characters of the keys of the four tables.
TableChars ==
    UNION { Chars(k) : k \in DOMAIN vowels \cup DOMAIN consonants
                             \cup DOMAIN compounds \cup DOMAIN modifiers }

\* C8: a word none of whose characters is in a key of a table, the empty
\* word among them, is encoded as three empty keys.
NonMatchingIsEmpty ==
    \A g \in DOMAIN calls :
        Done(g) /\ Chars(calls[g].word) \cap TableChars = {} =>
            Result(g) = << <<>>, <<>>, <<>> >>

\* A call on a word of an unknown character of the script and a character
\* outside it.
NonMatchingEncoded ==
    \E g \in DOMAIN calls :
        /\ Done(g)
        /\ Chars(calls[g].word) = {ZERO, Chr["A"]}

\* w without its characters outside the Oriya script.
OdiaOnly(w) == SelectSeq(w, LAMBDA c : InRanges(c, unicodeScripts.Oriya))

\* C9: a word is encoded as the word without its characters outside the
\* script is; so two words that differ only in such characters are encoded
\* alike.
ScriptFilterIdempotent ==
    \A g \in DOMAIN calls :
        Done(g) => Result(g) = EncodeAlone(OdiaOnly(calls[g].word))

\* A call, with a non-empty key2, on a compound key with a brace between
\* its first character and its virama.
MixedCompoundEncoded ==
    \E g \in DOMAIN calls :
        /\ Done(g)
        /\ calls[g].word = <<KA, Chr["{"], VIRAMA, TA>>
        /\ calls[g].key2 # <<>>

\* C10: on an encoder shared by goroutines, no step of a call changes the
\* matchers, every call that becomes done has the triple of Encode run
\* alone, and no step of another call changes a call that is done.
SharedEncoderSafe ==
    [][ /\ od' = od
        /\ \A g \in DOMAIN calls :
             calls'[g].pc = "done" =>
               IF calls[g].pc = "done"
               THEN calls'[g] = calls[g]
               ELSE << calls'[g].key0, calls'[g].key1, calls'[g].key2 >>
                        = EncodeAlone(calls'[g].word) ]_vars

\* A call done while another goroutine is inside a call on another word.
DoneBesideRunning ==
    \E g, h \in DOMAIN calls :
        /\ g # h
        /\ Done(g)
        /\ calls[h].pc \notin {"idle", "done", "process"}
        /\ calls[h].word # calls[g].word

----------------------------------------------------------------------------
(* The modifier marks and the passes before the modifier loop *)

\* The modifier marks of s, in order.
Marks(s) == SelectSeq(s, LAMBDA c : <<c>> \in DOMAIN modifiers)

\* The marks of s that do not come right after a consonant or a vowel (the
\* last character of a compound key is a consonant).
OrphanMarks(s) ==
    LET keep == { i \in DOMAIN s :
                    /\ <<s[i]>> \in DOMAIN modifiers
                    /\ \/ i = 1
                       \/ <<s[i - 1]>> \notin DOMAIN consonants \cup DOMAIN vowels }
        F[i \in 0..Len(s)] ==
            IF i = 0 THEN <<>>
            ELSE IF i \in keep THEN Append(F[i - 1], s[i]) ELSE F[i - 1]
    IN  F[Len(s)]

\* The indices of s at which a compound key occurs.
CompoundsAt(s) ==
    { i \in DOMAIN s : \E c \in DOMAIN compounds : HasPrefixAt(s, i, c) }

\* The call of g is about to run the first iteration of the modifier loop.
AtModifierLoop(g) == At(g, "modifiers") /\ calls[g].todo = DOMAIN modifiers

\* C11 as stated: when the modifier loop starts, the marks left in input are
\* those of the filtered word that do not come right after a base glyph; the
\* others went with their glyph.
ModifierConsumed ==
    \A g \in DOMAIN calls : AtModifierLoop(g) =>
        Marks(calls[g].input) = OrphanMarks(OdiaOnly(calls[g].word))

\* C11 as amended: the passes before the modifier loop replace glyphs only.
\* When the loop starts, input still holds the marks of the filtered word,
\* in order, but for one virama for each compound key replaced; and a
\* consonant or vowel followed by a mark has as key2 the glyph's code
\* followed by the mark's code.
ModifierKept ==
    \A g \in DOMAIN calls :
        LET f == OdiaOnly(calls[g].word)
        IN  /\ AtModifierLoop(g) =>
                /\ IsSubsequence(Marks(calls[g].input), Marks(f))
                /\ Len(Marks(calls[g].input))
                       >= Len(Marks(f)) - Cardinality(CompoundsAt(f))
            /\ Done(g) /\ Len(f) = 2 =>
                /\ \A b \in DOMAIN consonants : \A m \in DOMAIN modifiers :
                     f = b \o m => calls[g].key2 = consonants[b] \o modifiers[m]
                /\ \A b \in DOMAIN vowels : \A m \in DOMAIN modifiers :
                     f = b \o m => calls[g].key2 = vowels[b] \o modifiers[m]

\* A call about to start the modifier loop on a consonant followed by a
\* mark, the mark still in input after the consonant's code.
MarkLeftAfterGlyph ==
    \E g \in DOMAIN calls :
        /\ AtModifierLoop(g)
        /\ calls[g].word = <<KA, ANUSVARA>>
        /\ calls[g].input = consonants[<<KA>>] \o <<ANUSVARA>>

\* C12: the codes of the compounds that the modified-compound matcher finds
\* in the filtered word are all in key2, in the order of the matches; in
\* the word of the two clusters, K2 and then K3.
CompoundPerOccurrence ==
    \A g \in DOMAIN calls : Done(g) =>
        LET ms == FindAllStringSubmatch(od.modCompounds, OdiaOnly(calls[g].word))
            codes == [i \in DOMAIN ms |-> compounds[ms[i][3]]]
        IN  /\ IsSubsequence(Flatten(codes), calls[g].key2)
            /\ calls[g].word = TwoClusters =>
                 /\ Contains(calls[g].key2, Rom(<<"K", "2">>))
                 /\ Contains(calls[g].key2, Rom(<<"K", "3">>))

====
